---- MODULE Spec2Model ----
(***************************************************************************)
(* Render-job orchestration of the Divergence view renderer                *)
(* (src/render.py): the deduplicating Queue, the two queues of the         *)
(* Renderer (queue = fresh jobs, rerender = refresh jobs), the background  *)
(* worker loop process_queue with the job it hands to a thread             *)
(* (animate_display), and the request handler serve with its cache         *)
(* promotion and lookahead policy.                                         *)
(*                                                                         *)
(* Threads.  serve runs on the server's event loop; it contains no await,  *)
(* so requests never interleave with each other.  process_queue runs on    *)
(* its own event loop in a daemon thread and animate_display in a thread   *)
(* of asyncio.to_thread, so worker and job steps interleave with requests. *)
(* A request is taken as one step: what it reads and writes is stated for  *)
(* the handler as a whole.  The worker is taken line by line: the two pops *)
(* of one loop iteration (lines 197 and 199), the start of the job and the *)
(* phases of the job are separate steps, and a request can fall between    *)
(* any two of them.                                                        *)
(*                                                                         *)
(* Files.  A file of RENDER_OUTPUT_DIR (staging) or CACHE_DIR (cache) is   *)
(* "absent", "partial" (created by the encoder, not yet completely         *)
(* written) or "complete".  Path.exists() is true of the last two.         *)
(*                                                                         *)
(* Flicker.  The frames loop of animate_display (lines 235-261) is         *)
(* modelled on its own, tube by tube; every random draw is a choice among  *)
(* the outcomes it can have.                                               *)
(***************************************************************************)
EXTENDS Integers, Sequences, FiniteSets, TLC

\* ---------------------------------------------------------------- bounds
\* Requests ask for the numbers 0..MaxValue.
MaxValue == 1
\* At most MaxRequests requests are served and at most MaxFailures jobs fail.
MaxRequests == 4
MaxFailures == 1
\* The fair specification serves at most MaxFairRequests requests.
MaxFairRequests == 3
\* The single-queue specification pushes the items 0..MaxItem.
MaxItem == 3
\* The drain specification starts from queues of at most these lengths.
MaxFresh == 3
MaxRefresh == 1
\* The flicker specification runs a ring of DIGITS tubes (8 in the source,
\* line 39); the loop treats every tube alike, with its two cyclic neighbours.
DIGITS == 4

\* ------------------------------------------------------- program constants
\* int(os.getenv("LOOKAHEAD", 5)): read from the environment; the model runs
\* with a window of three numbers, the smallest with an inner member.
LOOKAHEAD == 2

None == -1

\* class Chances, lines 134-137; the two probabilities in hundredths
START == 1
SKIP_DIM == 50
DURATION_MIN == 0
DURATION_MAX == 5

Values == 0..MaxValue
\* every number a request can name a file for
Numbers == 0..(MaxValue + LOOKAHEAD)
Items == 0..MaxItem

VARIABLES
    queue,      \* Renderer.queue.data: the keys of the OrderedDict, oldest first
    rerender,   \* Renderer.rerender.data
    cache,      \* CACHE_DIR: number -> state of <number>.webp
    staging,    \* RENDER_OUTPUT_DIR: number -> state of <number>.webp
    pc,         \* position of process_queue
    number,     \* the local `number` of process_queue
    jobs,       \* the animate_display calls running in threads
    last,       \* the step just taken; for a request, its response and what it found
    requests,   \* requests served so far
    failures,   \* jobs failed so far
    source,     \* the queue the worker's number was popped from
    asked,      \* the numbers a request answered 404 for, until their job fails
    raced,      \* the numbers requests pushed into queue since the worker found it empty
    processed,  \* drain specification: the numbers of the jobs started, in order
    drain0,     \* drain specification: the queues it started from, fresh then refresh
    older,      \* single-queue specification: <<a, b>> when a was inserted before b
    chances,    \* Renderer.chances, as __init__ leaves it
    override,   \* the chances argument of Renderer.__init__: its items in order
    durations,  \* animate_display: tube -> number of frames the tube is off
    state,      \* animate_display: tube -> material shown
    tube,       \* the tubes of the current frame already updated
    before,     \* durations as the current frame found it
    started     \* the tube that began a flicker in the step just taken, or None

vars == <<queue, rerender, cache, staging, pc, number, jobs, last,
          requests, failures, source, asked, raced, processed, drain0, older,
          chances, override, durations, state, tube, before, started>>

\* the request handler, the worker and its jobs
service == <<queue, rerender, cache, staging, pc, number, jobs, last,
             requests, failures, source, asked, raced, processed, drain0, older>>
\* the Renderer's constants and the frames loop
flicker == <<chances, override, durations, state, tube, before, started>>

counters == <<requests, failures>>
history == <<processed, drain0, older>>

Range(s) == {s[i] : i \in DOMAIN s}

NoDuplicates(s) == \A i, j \in DOMAIN s : i # j => s[i] # s[j]

\* ----------------------------------------------------------------- Queue
\* a pop that returns the newest key (popitem() with its default last=True)
QueuePopNewest(data) ==
    IF data # <<>> THEN data[Len(data)] ELSE None

\* a Queue.__call__ without the membership test
QueueCallNoDedup(data, item) == Append(data, item)

\* Queue.__call__: append unless present.
QueueCall(data, item) ==
    IF item \notin Range(data) THEN Append(data, item) ELSE data

\* Queue.pop: the value returned ...
QueuePop(data) ==
    IF data # <<>> THEN Head(data) ELSE None

\* ... and the OrderedDict it leaves (popitem(last=False)).
QueuePopItem(data) ==
    IF data # <<>> THEN Tail(data) ELSE data

\* ----------------------------------------------------------------- files
Exists(dir, n) == dir[n] # "absent"

NoFiles == [n \in Numbers |-> "absent"]

\* the numbers with a file in the cache or in staging
Present(c, s) == {n \in Numbers : Exists(c, n) \/ Exists(s, n)}

\* the record of a step: a request's number, status and body, and the queues
\* and files it found
StepRecord(op, n, status, body, q0, r0, p0) ==
    [op |-> op, number |-> n, status |-> status, body |-> body,
     queue0 |-> q0, rerender0 |-> r0, present0 |-> p0]

WorkerStep(op) == StepRecord(op, None, 0, "", <<>>, <<>>, {})

\* -------------------------------------------------------------- Renderer
\* a Renderer.__call__ over range(n, hi), one number short
RECURSIVE RendererCallShort(_, _, _, _, _)
RendererCallShort(q, n, hi, c, s) ==
    IF n >= hi THEN q
    ELSE RendererCallShort(
            IF ~(Exists(c, n) \/ Exists(s, n)) THEN QueueCall(q, n) ELSE q,
            n + 1, hi, c, s)

\* Renderer.__call__ over range(n, hi + 1): push every number that has a file
\* neither in the cache nor in staging.
RECURSIVE RendererCall(_, _, _, _, _)
RendererCall(q, n, hi, c, s) ==
    IF n > hi THEN q
    ELSE RendererCall(
            IF ~(Exists(c, n) \/ Exists(s, n)) THEN QueueCall(q, n) ELSE q,
            n + 1, hi, c, s)

\* ----------------------------------------------------------------- serve
\* lines 294-295: does <number + LOOKAHEAD>.webp exist in staging or cache?
FuturePaths(c, s, n) ==
    Exists(s, n + LOOKAHEAD) \/ Exists(c, n + LOOKAHEAD)

\* lines 298-299: shutil.move(source_path, cache_path) when the staged file exists
PromotedCache(c, s, n) ==
    IF Exists(s, n) THEN [c EXCEPT ![n] = s[n]] ELSE c

PromotedStaging(s, n) ==
    IF Exists(s, n) THEN [s EXCEPT ![n] = "absent"] ELSE s

\* line 302 with the second `not` left out
FirstTimeNotDropped(c1, n, future_paths) ==
    ~Exists(c1, n) \/ future_paths

\* line 302, on the cache as promotion left it
FirstTime(c1, n, future_paths) ==
    ~Exists(c1, n) \/ ~future_paths

\* lines 309-310 with the test inverted
ServeStatusInverted(c1, n) ==
    IF Exists(c1, n) THEN 404 ELSE 200

\* lines 309-312
ServeStatus(c1, n) ==
    IF ~Exists(c1, n) THEN 404 ELSE 200

ServeBody(c1, n) ==
    IF ~Exists(c1, n) THEN "" ELSE c1[n]

\* a job whose output file the request moves away while the encoder writes it
Moved(j, s, n) ==
    IF j.number = n /\ j.phase = "encoding" /\ Exists(s, n)
    THEN [j EXCEPT !.moved = TRUE] ELSE j

serve(n) ==
    LET future_paths == FuturePaths(cache, staging, n)
        cache1 == PromotedCache(cache, staging, n)
        staging1 == PromotedStaging(staging, n)
    IN  /\ requests < MaxRequests
        /\ requests' = requests + 1
        /\ cache' = cache1
        /\ staging' = staging1
        /\ jobs' = {Moved(j, staging, n) : j \in jobs}
        /\ IF FirstTime(cache1, n, future_paths)
           THEN /\ queue' = RendererCall(queue, n, n + LOOKAHEAD, cache1, staging1)
                /\ rerender' = rerender
           ELSE /\ rerender' = QueueCall(rerender, n)
                /\ queue' = queue
        /\ last' = StepRecord("serve", n, ServeStatus(cache1, n), ServeBody(cache1, n),
                              queue, rerender, Present(cache, staging))
        /\ raced' = IF pc = "pop_rerender"
                    THEN raced \cup (Range(queue') \ Range(queue)) ELSE raced
        /\ asked' = IF ServeStatus(cache1, n) = 404
                    THEN asked \cup {n} ELSE asked \ {n}
        /\ UNCHANGED <<pc, number, failures, source, history>>
        /\ UNCHANGED flicker

\* --------------------------------------------------------- process_queue
\* a loop that starts the job and goes on without awaiting it
NoAwait == "pop_fresh"

\* line 201: the loop awaits the job it handed to a thread
AwaitJob == "await"

\* an exception that leaves the loop
Terminated == "terminated"

\* lines 202-203: the exception is logged inside the loop, which goes on
OnException == "pop_fresh"

\* a loop that tries rerender whatever queue.pop() returned
AlwaysRerender(n) == "pop_rerender"

\* line 198: rerender is tried only when queue.pop() returned None
AfterPopFresh(n) ==
    IF n = None THEN "pop_rerender" ELSE "dispatch"

\* line 197
PopFresh ==
    /\ pc = "pop_fresh"
    /\ number' = QueuePop(queue)
    /\ queue' = QueuePopItem(queue)
    /\ pc' = AfterPopFresh(number')
    /\ last' = WorkerStep("pop_fresh")
    /\ source' = "fresh"
    /\ raced' = {}
    /\ UNCHANGED <<rerender, cache, staging, jobs, counters, asked, history>>
    /\ UNCHANGED flicker

\* lines 198-199
PopRerender ==
    /\ pc = "pop_rerender"
    /\ number' = QueuePop(rerender)
    /\ rerender' = QueuePopItem(rerender)
    /\ pc' = "dispatch"
    /\ source' = "refresh"
    /\ last' = WorkerStep("pop_rerender")
    /\ UNCHANGED <<queue, cache, staging, jobs, counters, asked, raced, history>>
    /\ UNCHANGED flicker

\* lines 200-201: hand the job to a thread, or go round the loop again
StartJob ==
    /\ pc = "dispatch"
    /\ IF number # None
       THEN /\ jobs' = jobs \cup {[number |-> number, phase |-> "rendering", moved |-> FALSE]}
            /\ pc' = AwaitJob
       ELSE /\ pc' = "pop_fresh"
            /\ UNCHANGED jobs
    /\ last' = WorkerStep("dispatch")
    /\ UNCHANGED <<queue, rerender, cache, staging, number, counters, source, asked, raced, drain0, older>>
    /\ UNCHANGED flicker

Dispatch == StartJob /\ UNCHANGED processed

\* -------------------------------------------------------- animate_display
\* the worker resumes when the job it awaits ends
Resume(after) == IF pc = "await" THEN after ELSE pc

\* lines 240-277: all frames are rendered into the temporary folder, then
\* ffmpeg -y creates <number>.webp in RENDER_OUTPUT_DIR and starts writing it
Encode(j) ==
    /\ j.phase = "rendering"
    /\ jobs' = (jobs \ {j}) \cup {[j EXCEPT !.phase = "encoding"]}
    /\ staging' = [staging EXCEPT ![j.number] = "partial"]
    /\ last' = WorkerStep("encode")
    /\ UNCHANGED <<queue, rerender, cache, pc, number, counters, source, asked, raced, history>>
    /\ UNCHANGED flicker

\* lines 277-282: ffmpeg ends with success.  A file that a request moved while
\* it was written is completed in the cache when the move was a rename, and
\* stays as it was copied when the move went across file systems.
EncodeDone(j) ==
    /\ j.phase = "encoding"
    /\ jobs' = jobs \ {j}
    /\ IF j.moved
       THEN /\ \/ cache' = [cache EXCEPT ![j.number] = "complete"]
               \/ cache' = cache
            /\ staging' = staging
       ELSE /\ staging' = [staging EXCEPT ![j.number] = "complete"]
            /\ cache' = cache
    /\ pc' = Resume("pop_fresh")
    /\ last' = WorkerStep("done")
    /\ UNCHANGED <<queue, rerender, number, counters, source, asked, raced, history>>
    /\ UNCHANGED flicker

\* an exception of set_display_number, render_frame or subprocess.run
\* (check=True): the files stay as they are
JobFail(j) ==
    /\ failures < MaxFailures
    /\ failures' = failures + 1
    /\ jobs' = jobs \ {j}
    /\ pc' = Resume(OnException)
    /\ last' = StepRecord("fail", j.number, 0, "", queue, rerender, Present(cache, staging))
    /\ asked' = asked \ {j.number}
    /\ UNCHANGED <<queue, rerender, cache, staging, number, requests, source, raced, history>>
    /\ UNCHANGED flicker

\* ------------------------------------------------- the flicker, lines 235-261
on_mat == "on"
off_mat == "off"
half_mat == "half"

Tubes == 0..(DIGITS - 1)

\* the attributes of class Chances, and the attribute k that __init__ sets
Chances ==
    [START |-> START, SKIP_DIM |-> SKIP_DIM,
     DURATION_MIN |-> DURATION_MIN, DURATION_MAX |-> DURATION_MAX, k |-> None]

ChanceNames == {"START", "SKIP_DIM", "DURATION_MIN", "DURATION_MAX"}

\* the chances arguments tried: none, one item, two items
Overrides ==
    { <<>>,
      << <<"DURATION_MAX", 2>> >>,
      << <<"START", 100>>, <<"DURATION_MIN", 1>> >> }

\* lines 158-160: `self.chances.k = v` for every item (k, v) of the argument:
\* each item assigns the attribute named k, the last one stays
RendererChances(items) ==
    IF items = <<>> THEN Chances
    ELSE [Chances EXCEPT !.k = items[Len(items)][2]]

\* random.random() < p for p hundredths: the outcomes the draw can have
Chance(p) ==
    IF p <= 0 THEN {FALSE} ELSE IF p >= 100 THEN {TRUE} ELSE BOOLEAN

\* a sample one too high
randintOffByOne(a, b) == (a + 1)..(b + 1)

\* random.randint(a, b): both ends included
randint(a, b) == a..b

Left(i) == (i - 1) % DIGITS
Right(i) == (i + 1) % DIGITS

\* a test of the left neighbour only
LeftActive(d, i) == d[Left(i)] # 0

\* line 254, read from the list as it is when tube i is reached
neighbour_active(d, i) == d[Left(i)] # 0 \/ d[Right(i)] # 0

\* a flicker that begins with the tube off unless it is dimmed
StartOff(s, dim) == IF dim THEN half_mat ELSE off_mat

\* lines 256-257: the material is changed only when the draw dims it
StartState(s, dim) == IF dim THEN half_mat ELSE s

\* lines 243-258 for tube i = tube: count down or light up, then maybe begin
TubeStep ==
    /\ tube < DIGITS
    /\ \E dim \in Chance(chances.SKIP_DIM), start \in Chance(chances.START),
          startdim \in Chance(chances.SKIP_DIM),
          sample \in randint(chances.DURATION_MIN, chances.DURATION_MAX) :
        LET i == tube
            counting == durations[i] # 0
            d1 == IF counting THEN [durations EXCEPT ![i] = @ - 1] ELSE durations
            s1 == IF counting
                  THEN (IF d1[i] # 0 /\ dim THEN half_mat ELSE off_mat)
                  ELSE on_mat
            begins == start /\ ~neighbour_active(d1, i)
        IN  /\ durations' = IF begins THEN [d1 EXCEPT ![i] = sample] ELSE d1
            /\ state' = [state EXCEPT ![i] = IF begins THEN StartState(s1, startdim) ELSE s1]
            /\ started' = IF begins THEN i ELSE None
    /\ tube' = tube + 1
    /\ UNCHANGED <<chances, override, before, service>>

\* lines 260-261: the frame is shown and rendered; the next frame begins
ShowFrame ==
    /\ tube = DIGITS
    /\ tube' = 0
    /\ before' = durations
    /\ started' = None
    /\ UNCHANGED <<chances, override, durations, state, service>>

\* lines 158-160 and 235-236: a Renderer built with the argument items, at
\* the start of animate_display
InitFlicker(items) ==
    /\ override = items
    /\ chances = RendererChances(items)
    /\ durations = [i \in Tubes |-> 0]
    /\ state = [i \in Tubes |-> on_mat]
    /\ tube = 0
    /\ before = [i \in Tubes |-> 0]
    /\ started = None

\* ------------------------------------------------------------------ Spec
Init ==
    /\ queue = <<>>
    /\ rerender = <<>>
    /\ cache = NoFiles
    /\ staging = NoFiles
    /\ pc = "pop_fresh"
    /\ number = None
    /\ jobs = {}
    /\ last = WorkerStep("init")
    /\ requests = 0
    /\ failures = 0
    /\ source = "fresh"
    /\ asked = {}
    /\ raced = {}
    /\ processed = <<>>
    /\ drain0 = <<>>
    /\ older = {}
    /\ InitFlicker(<<>>)

Next ==
    \/ \E n \in Values : serve(n)
    \/ PopFresh
    \/ PopRerender
    \/ Dispatch
    \/ \E j \in jobs : Encode(j)
    \/ \E j \in jobs : EncodeDone(j)
    \/ \E j \in jobs : JobFail(j)

Spec == Init /\ [][Next]_vars

\* The worker's thread and the job's thread are scheduled: a step of the loop
\* or of the job that stays possible is taken.  Nothing obliges a request
\* to come or a job to fail.
Fairness ==
    /\ WF_vars(PopFresh)
    /\ WF_vars(PopRerender)
    /\ WF_vars(Dispatch)
    /\ WF_vars(\E j \in jobs : Encode(j))
    /\ WF_vars(\E j \in jobs : EncodeDone(j))

\* a request within the budget of the fair specification
FairServe(n) == requests < MaxFairRequests /\ serve(n)

NextFair ==
    \/ \E n \in Values : FairServe(n)
    \/ PopFresh
    \/ PopRerender
    \/ Dispatch
    \/ \E j \in jobs : Encode(j)
    \/ \E j \in jobs : EncodeDone(j)
    \/ \E j \in jobs : JobFail(j)

SpecFair == Init /\ [][NextFair]_vars /\ Fairness

\* ------------------------------------------------- one Queue on its own
\* Queue.__call__(item) on one queue.  older records, for the items present,
\* which was inserted before which.
QueuePushStep(item) ==
    /\ queue' = QueueCall(queue, item)
    /\ older' = IF item \in Range(queue) THEN older
                ELSE {p \in older : p[1] # item /\ p[2] # item}
                     \cup {<<a, item>> : a \in Range(queue)}
    /\ last' = StepRecord("push", item, 0, "", queue, <<>>, {})
    /\ UNCHANGED <<rerender, cache, staging, pc, number, jobs, counters, source, asked, raced, processed, drain0>>
    /\ UNCHANGED flicker

\* Queue.pop() on one queue; number receives what it returns.
QueuePopStep ==
    /\ number' = QueuePop(queue)
    /\ queue' = QueuePopItem(queue)
    /\ last' = StepRecord("pop", number', 0, "", queue, <<>>, {})
    /\ UNCHANGED <<rerender, cache, staging, pc, jobs, counters, source, asked, raced, history>>
    /\ UNCHANGED flicker

NextQueue ==
    \/ \E item \in Items : QueuePushStep(item)
    \/ QueuePopStep

SpecQueue == Init /\ [][NextQueue]_vars

\* ------------------------------------------------- the frames loop alone
\* An idle service; a Renderer built with one of the arguments runs the
\* frames loop.  total_frames is read from the environment: the loop is let
\* run for any number of frames.
InitAnimation ==
    /\ queue = <<>>
    /\ rerender = <<>>
    /\ cache = NoFiles
    /\ staging = NoFiles
    /\ pc = "pop_fresh"
    /\ number = None
    /\ jobs = {}
    /\ last = WorkerStep("init")
    /\ requests = 0
    /\ failures = 0
    /\ source = "fresh"
    /\ asked = {}
    /\ raced = {}
    /\ processed = <<>>
    /\ drain0 = <<>>
    /\ older = {}
    /\ \E items \in Overrides : InitFlicker(items)

NextFlicker ==
    \/ TubeStep
    \/ ShowFrame

SpecFlicker == InitAnimation /\ [][NextFlicker]_vars

\* ------------------------------------------ the worker draining alone
\* the sequences over S without duplicates, of length at most k
DedupSeqs(S, k) ==
    {q \in UNION {[1..m -> S] : m \in 0..k} : NoDuplicates(q)}

\* The worker at the head of its loop with queues that requests have filled,
\* and no request to come.  A number waits in rerender only with its file in
\* the cache.
InitDrain ==
    \E f \in DedupSeqs(Numbers, MaxFresh), r \in DedupSeqs(Numbers, MaxRefresh) :
        /\ queue = f
        /\ rerender = r
        /\ cache = [n \in Numbers |-> IF n \in Range(r) THEN "complete" ELSE "absent"]
        /\ staging = NoFiles
        /\ pc = "pop_fresh"
        /\ number = None
        /\ jobs = {}
        /\ last = WorkerStep("init")
        /\ requests = 0
        /\ failures = 0
        /\ source = "fresh"
        /\ asked = {}
        /\ raced = {}
        /\ processed = <<>>
        /\ drain0 = f \o r
        /\ older = {}
        /\ InitFlicker(<<>>)

\* line 201, with the job's number appended to processed
DrainDispatch ==
    /\ StartJob
    /\ processed' = IF number # None THEN Append(processed, number) ELSE processed

NextDrain ==
    \/ PopFresh
    \/ PopRerender
    \/ DrainDispatch
    \/ \E j \in jobs : Encode(j)
    \/ \E j \in jobs : EncodeDone(j)
    \/ \E j \in jobs : JobFail(j)

SpecDrain == InitDrain /\ [][NextDrain]_vars

\* ---------------------------------------------------------------- claims

\* C1: in a single queue every value occurs at most once; a push of a value
\* that is present leaves the queue as it was; pop returns None from an empty
\* queue and otherwise removes and returns the present value that was
\* inserted before all the others (FIFO by first push since last absent).
C1_QueueDedupFifo ==
    /\ NoDuplicates(queue)
    /\ (last.op = "push" /\ last.number \in Range(last.queue0))
          => queue = last.queue0
    /\ (last.op = "push" /\ last.number \notin Range(last.queue0))
          => Range(queue) = Range(last.queue0) \cup {last.number}
    /\ (last.op = "pop" /\ last.queue0 = <<>>)
          => (number = None /\ queue = <<>>)
    /\ (last.op = "pop" /\ last.queue0 # <<>>)
          => /\ number \in Range(last.queue0)
             /\ Range(queue) = Range(last.queue0) \ {number}
             /\ \A a \in Range(last.queue0) : <<a, number>> \notin older

\* a pop took 2, inserted first, from a queue holding 2, 0, 1
C1_Witness ==
    /\ last.op = "pop"
    /\ last.queue0 = <<2, 0, 1>>
    /\ number = 2
    /\ queue = <<0, 1>>
    /\ {<<2, 0>>, <<2, 1>>, <<0, 1>>} \subseteq older

\* C2, as claimed: at the instant the worker removes a value from rerender,
\* queue (the fresh queue) is empty.
C2_FreshEmptyAtRefreshPop ==
    (last.op = "pop_rerender" /\ number # None) => queue = <<>>

\* C2, amended: the worker removes a value from rerender only in a loop
\* iteration whose queue.pop() returned None, queue was empty at that pop, and
\* at the instant of the removal queue holds nothing but the numbers that
\* requests pushed after that pop.
C2_RefreshAfterFreshFoundEmpty ==
    /\ pc = "pop_rerender" => number = None
    /\ (pc = "pop_rerender" /\ last.op = "pop_fresh") => queue = <<>>
    /\ (last.op = "pop_rerender" /\ number # None) => Range(queue) \subseteq raced

\* the worker took a value from rerender while queue held numbers pushed
\* between its two pops
C2_Witness ==
    /\ last.op = "pop_rerender"
    /\ number # None
    /\ queue # <<>>
    /\ Range(queue) \subseteq raced

\* the number popped and not yet handed to a job
Pending == IF pc = "dispatch" /\ number # None THEN <<number>> ELSE <<>>

\* C3: with no push while the worker drains, the jobs started so far, the
\* number just popped and what is left in queue and then in rerender are, in
\* that order, the fresh queue followed by the refresh queue as they were at
\* the start; so the jobs run in the FIFO order of fresh, then of refresh.
C3_DrainOrder ==
    processed \o Pending \o queue \o rerender = drain0

\* fresh = 3, 1, 2 and refresh = 0 were processed as 3, 1, 2, 0
C3_Witness ==
    /\ drain0 = <<3, 1, 2, 0>>
    /\ processed = <<3, 1, 2, 0>>
    /\ queue = <<>>
    /\ rerender = <<>>
    /\ jobs = {}
    /\ cache[0] = "complete"

\* C4: at most one job is in flight, and while one is, the worker is
\* suspended in its await: it neither pops nor starts another job.
C4_OneJobInFlight ==
    /\ Cardinality(jobs) <= 1
    /\ jobs # {} => pc = "await"

\* a job is in flight while both queues hold work and a request has just come
C4_Witness ==
    /\ jobs # {}
    /\ queue # <<>>
    /\ rerender # <<>>
    /\ last.op = "serve"

\* the lookahead window of a request for n
Window(n) == n..(n + LOOKAHEAD)

\* the members of S in ascending order
RECURSIVE Ascending(_)
Ascending(S) ==
    IF S = {} THEN <<>>
    ELSE LET m == CHOOSE x \in S : \A y \in S : x <= y
         IN  <<m>> \o Ascending(S \ {m})

\* the members of the window of the last request that had no file and were
\* not in queue when the request came
Missing == (Window(last.number) \ last.present0) \ Range(last.queue0)

\* C5: a request for V that finds no file of [V, V+LOOKAHEAD] in cache or
\* staging and both queues empty leaves queue = V, V+1, ..., V+LOOKAHEAD and
\* rerender as it was.
C5_LookaheadComplete ==
    (/\ last.op = "serve"
     /\ Window(last.number) \cap last.present0 = {}
     /\ last.queue0 = <<>>
     /\ last.rerender0 = <<>>)
        => /\ queue = Ascending(Window(last.number))
           /\ Len(queue) = LOOKAHEAD + 1
           /\ rerender = last.rerender0

\* a cold request for 1 with a cold window and empty queues
C5_Witness ==
    /\ last.op = "serve"
    /\ last.number = 1
    /\ Window(1) \cap last.present0 = {}
    /\ last.queue0 = <<>>
    /\ last.rerender0 = <<>>
    /\ queue = <<1, 2, 3>>

\* C6: a request for V that finds a file of every number of [V, V+LOOKAHEAD]
\* in cache or staging pushes V, and nothing else, into rerender and leaves
\* queue as it was.
C6_RefreshFallback ==
    (/\ last.op = "serve"
     /\ Window(last.number) \subseteq last.present0)
        => /\ queue = last.queue0
           /\ rerender = IF last.number \in Range(last.rerender0)
                         THEN last.rerender0
                         ELSE Append(last.rerender0, last.number)

\* a request for 1 with a warm window appended 1 to a rerender holding 0
C6_Witness ==
    /\ last.op = "serve"
    /\ last.number = 1
    /\ Window(1) \subseteq last.present0
    /\ last.rerender0 = <<0>>
    /\ rerender = <<0, 1>>

\* C7, as claimed: a request for V that finds some number of
\* [V, V+LOOKAHEAD] without a file in cache and staging pushes every such
\* number not yet queued into queue and pushes nothing into rerender.
C7_EveryMemberChecked ==
    (/\ last.op = "serve"
     /\ Window(last.number) \ last.present0 # {})
        => /\ queue = last.queue0 \o Ascending(Missing)
           /\ rerender = last.rerender0

\* C8: a request answers 200 with the file of the cache exactly when the
\* cache, as the promotion of that request left it, holds a file for V, and
\* 404 otherwise; after a 404 every number of [V, V+LOOKAHEAD] that had no
\* file is in queue (the request has enqueued, it has not waited).
C8_Response ==
    last.op = "serve"
        => /\ last.status \in {200, 404}
           /\ last.status = 200 <=> Exists(cache, last.number)
           /\ last.status = 200 => last.body = cache[last.number]
           /\ last.status = 404
                => /\ last.number \notin last.present0
                   /\ Window(last.number) \ last.present0 \subseteq Range(queue)

\* a request for 1 answered 404 while a job was in flight, and pushed 1
C8_Witness ==
    /\ last.op = "serve"
    /\ last.number = 1
    /\ last.status = 404
    /\ 1 \notin Range(last.queue0)
    /\ 1 \in Range(queue)
    /\ jobs # {}

\* C9, as claimed: every file of the cache, and every body answered, is the
\* complete output of a job that ended with success.
C9_CacheAtomicity ==
    /\ \A n \in Numbers : cache[n] \in {"absent", "complete"}
    /\ (last.op = "serve" /\ last.status = 200) => last.body = "complete"

\* C10, as claimed: after a job failed its number is in neither queue as long
\* as no later request has pushed it.
C10_DroppedNotQueued ==
    last.op = "fail"
        => last.number \notin Range(queue) \cup Range(rerender)

\* C10, amended: the failure puts nothing into a queue (both are as they were
\* when the job failed, so the number is queued afterwards only if a request
\* pushed it), the failed job is no longer in flight, and the worker is back
\* at the head of its loop, about to pop.
C10_FailureDropsJob ==
    last.op = "fail"
        => /\ queue = last.queue0
           /\ rerender = last.rerender0
           /\ \A j \in jobs : j.number # last.number
           /\ pc = "pop_fresh"
           /\ ENABLED PopFresh

\* the job of 0 failed with 1 and 2 still queued
C10_Witness ==
    /\ last.op = "fail"
    /\ last.number = 0
    /\ queue = <<1, 2>>
    /\ pc = "pop_fresh"

\* a request for v would be answered 200: v has a file in cache or staging
Available(v) == v \in Present(cache, staging)

\* C11: the first request after a fresh start answers 404; with the worker
\* scheduled fairly, a request for V answered 404 is followed by a file for V
\* unless V's job fails; once V has a file it keeps one, and every request
\* that finds a file for V answers 200.
C11_ScenarioA ==
    /\ []((last.op = "serve" /\ requests = 1) => last.status = 404)
    /\ \A v \in Values :
          (last.op = "serve" /\ last.number = v /\ last.status = 404)
             ~> (Available(v) \/ (last.op = "fail" /\ last.number = v))
    /\ [][\A v \in Values : Available(v) => Available(v)']_vars
    /\ []((last.op = "serve" /\ last.number \in last.present0) => last.status = 200)

\* a later request for 0 is answered 200 with the complete file, no job failed
C11_Witness ==
    /\ last.op = "serve"
    /\ last.number = 0
    /\ last.status = 200
    /\ last.body = "complete"
    /\ requests >= 2
    /\ failures = 0

\* lines 315-316: the listing GET / answers, fresh entries then refresh entries
get_queue == queue \o rerender

\* a request answered 404 for v, v has no file yet and its job has not failed
AwaitsRender(v) == v \in asked /\ ~Available(v)

\* the worker has taken v out of a queue: popped and about to be dispatched,
\* or given to a job that has not ended
InHand(v) ==
    \/ pc = "dispatch" /\ number = v
    \/ \E j \in jobs : j.number = v

\* C12: whenever a request for V has answered 404 and V's render has not yet
\* completed, the listing (fresh then refresh) includes V, also while the
\* worker is in the middle of rendering V.
C12_ListedUntilRendered ==
    \A v \in Values : AwaitsRender(v) => v \in Range(get_queue)

\* C12, amended: a Value that was answered 404 and has no file yet is in the
\* listing or in the worker's hands; queue.pop() takes it out of the listing
\* before it is rendered.
C12_ListedOrInHand ==
    \A v \in Values : AwaitsRender(v) => (v \in Range(get_queue) \/ InHand(v))

\* V was answered 404, is being rendered and is not in the listing
C12_Witness ==
    \E j \in jobs :
        /\ j.phase = "rendering"
        /\ AwaitsRender(j.number)
        /\ j.number \notin Range(get_queue)

\* C15: the worker never starts a job taken from the fresh queue for a Value
\* that already has an asset in cache or staging at the moment the job
\* starts, whatever the interleaving with requests.
C15_NoRenderOfProduced ==
    (last.op = "dispatch" /\ pc = AwaitJob /\ source = "fresh") => ~Available(number)

\* C18: when both queues were found empty the worker is suspended: while they
\* stay empty it cannot take another pop attempt.
C18_IdleWorkerSuspends ==
    (last.op = "dispatch" /\ number = None /\ queue = <<>> /\ rerender = <<>>)
        => ~ENABLED PopFresh

\* C20: no Value is in the fresh and the refresh queue at the same time, so
\* the listing never contains a duplicate.
C20_QueuesDisjoint ==
    Range(queue) \cap Range(rerender) = {}

\* --------------------------------------------------------------- flicker
\* the tube updated by the step just taken
Updated == tube - 1

\* C13: if the remaining off frames of a cyclic neighbour of tube i were > 0
\* before any tube was updated in the frame, tube i does not begin a flicker
\* in that frame: the decision reads no value updated in the same frame.
C13_SuppressedByFrameStart ==
    started # None => (before[Left(started)] = 0 /\ before[Right(started)] = 0)

\* C13, amended: a tube begins a flicker only when both neighbours are at 0
\* in the list as tube i finds it: the value from before the frame for a
\* neighbour not yet updated in the frame, the value already updated in the
\* frame (counted down, or sampled) for a neighbour updated before tube i.
C13_SuppressedByCurrent ==
    started # None =>
        \A j \in {Left(started), Right(started)} :
            /\ durations[j] = 0
            /\ j > started => before[j] = 0

\* a tube begins a flicker though its left neighbour was still off when the
\* frame began
C13_Witness ==
    /\ started # None
    /\ before[Left(started)] > 0
    /\ durations[started] > 0

\* C14: every sample taken when a flicker begins lies in
\* DURATION_MIN..DURATION_MAX, every tube's remaining off frames stay in
\* 0..DURATION_MAX, and they change only by such a sample or by a decrement
\* of 1 from a value > 0.
C14_DurationBounds ==
    /\ [](\A i \in Tubes : durations[i] \in 0..DURATION_MAX)
    /\ [](started # None => durations[started] \in DURATION_MIN..DURATION_MAX)
    /\ [][\A i \in Tubes :
            \/ durations'[i] = durations[i]
            \/ durations[i] > 0 /\ durations'[i] = durations[i] - 1
            \/ started' = i /\ durations'[i] \in DURATION_MIN..DURATION_MAX]_vars

\* a flicker begins with the longest duration
C14_Witness ==
    started # None /\ durations[started] = DURATION_MAX

\* C16: a tube that begins a flicker in a frame is shown half or off in that
\* frame, never on.
C16_StartsHalfOrOff ==
    started # None => state[started] \in {half_mat, off_mat}

\* C16, amended: a tube that begins a flicker in a frame is shown half when
\* the draw dims it, and otherwise as the countdown step of the frame left it:
\* on when it was not counting down, off when it was.
C16_StartsHalfOrAsLeft ==
    started # None =>
        state[started] \in {half_mat, IF before[started] > 0 THEN off_mat ELSE on_mat}

\* a tube begins a flicker and is shown on in that frame
C16_Witness ==
    /\ started # None
    /\ state[started] = on_mat
    /\ durations[started] > 0

\* the value the argument gives the constant, or its default
Expected(name) ==
    IF \E x \in 1..Len(override) : override[x][1] = name
    THEN override[CHOOSE x \in 1..Len(override) : override[x][1] = name][2]
    ELSE Chances[name]

\* C17: every animation uses, for a constant the constructor's argument
\* names, the value the argument gives: a sample taken when a flicker begins
\* lies within the duration bounds so obtained; the constants the argument
\* does not name keep their defaults.
C17_OverridesUsed ==
    /\ started # None =>
          durations[started] \in Expected("DURATION_MIN")..Expected("DURATION_MAX")
    /\ \A name \in ChanceNames :
          (\A x \in 1..Len(override) : override[x][1] # name)
              => chances[name] = Chances[name]

\* C19: after every tube update of every frame no two cyclically adjacent
\* tubes both have remaining off frames.
C19_NoAdjacentFlickers ==
    \A i \in Tubes : ~(durations[i] > 0 /\ durations[Right(i)] > 0)

\* a tube was updated next to one that is off, and two tubes are off at once
C19_Witness ==
    /\ tube > 0
    /\ durations[Left(Updated)] > 0
    /\ \E i \in Tubes \ {Left(Updated)} : durations[i] > 0

====
